---- MODULE Spec2Model ----
(***************************************************************************)
(* The two ingestion scripts of the repository as one state machine:       *)
(*   scripts/ingest_leetcode_data.py  (download_dataset, process_data,     *)
(*                                     cleanup)                            *)
(*   scripts/ingest_hf_leetcode.py    (extract_method_signature,           *)
(*                                     process_hf_dataset)                 *)
(* A Python str is a sequence of one-character strings.  A field value of  *)
(* a raw record is [t |-> tag, s |-> text]: tag "str" (a str), "none"      *)
(* (None), "nan" (pandas' missing value, float nan), "series" (what        *)
(* Series.get returns for a duplicated column label) or "absent" (the key  *)
(* is not in the record, so .get returns its default).                     *)
(***************************************************************************)
EXTENDS Integers, Sequences, FiniteSets, TLC

VARIABLES
    script,         \* which script runs: "ingest_leetcode_data" or "ingest_hf_leetcode"
    pc,             \* the position of the run in the script
    exc,            \* the exception that reached the top-level handler, or "none"
    exit_code,      \* the process's exit status, -1 while it runs
    dup_columns,    \* the column labels df.columns holds twice after lowercasing
    existing_file,  \* EXISTING_KB_FILE on disk, as the run finds it
    existing_kb,    \* process_hf_dataset's existing_kb
    kb,             \* process_data's kb
    solutions_kb,   \* process_hf_dataset's solutions_kb
    dataset,        \* the records the loaded frame / split holds: the loop runs
                    \* over any sequence of at most MaxRecords of them
    idx,            \* the number of records the loop has taken
    item,           \* the loop variable (row / item): the record taken last
    outcome,        \* how the last record ended: "stored", "skipped", "raised"
    stored_from,    \* history: for each key, the record whose entry was stored last
    replaced,       \* history: the entry the last stored record overwrote, or <<>>
    raised_seen,    \* history: some record of this run has raised
    count,          \* process_data's count: the records stored so far
    output_file,    \* OUTPUT_FILE on disk
    writes          \* the number of times OUTPUT_FILE was opened for writing

vars == <<script, pc, exc, exit_code, dup_columns, existing_file, existing_kb,
          dataset, kb, solutions_kb, idx, item, outcome, stored_from, replaced,
          raised_seen, count, output_file, writes>>

(***************************************************************************)
(* Bounds of the model.                                                    *)
(***************************************************************************)
MaxRecords == 2
MaxPieces == 2

(***************************************************************************)
(* Python str methods.                                                     *)
(***************************************************************************)
IsSpace(c) == c \in {" ", "\t", "\n", "\r", "\f"}

UpperCase == <<"A","B","C","D","E","F","G","H","I","J","K","L","M",
               "N","O","P","Q","R","S","T","U","V","W","X","Y","Z">>

LowerCase == <<"a","b","c","d","e","f","g","h","i","j","k","l","m",
               "n","o","p","q","r","s","t","u","v","w","x","y","z">>

Digits == {"0","1","2","3","4","5","6","7","8","9"}

Range(f) == {f[i] : i \in DOMAIN f}

LowerChar(c) ==
    IF \E i \in 1..26 : UpperCase[i] = c
    THEN LowerCase[CHOOSE i \in 1..26 : UpperCase[i] = c]
    ELSE c

\* str.lower()
Lower(s) == [i \in 1..Len(s) |-> LowerChar(s[i])]

RECURSIVE LStrip(_)
LStrip(s) == IF s # <<>> /\ IsSpace(Head(s)) THEN LStrip(Tail(s)) ELSE s

RECURSIVE RStrip(_)
RStrip(s) ==
    IF s # <<>> /\ IsSpace(s[Len(s)]) THEN RStrip(SubSeq(s, 1, Len(s) - 1)) ELSE s

\* str.strip()
Strip(s) == RStrip(LStrip(s))

RECURSIVE RStripChar(_, _)
\* str.rstrip(c) for a one-character argument
RStripChar(s, c) ==
    IF s # <<>> /\ s[Len(s)] = c THEN RStripChar(SubSeq(s, 1, Len(s) - 1), c) ELSE s

RECURSIVE Split(_, _)
\* str.split(c) for a one-character separator: always at least one piece
Split(s, c) ==
    IF \E i \in 1..Len(s) : s[i] = c
    THEN LET i == CHOOSE j \in 1..Len(s) : s[j] = c /\ \A m \in 1..(j - 1) : s[m] # c
         IN  <<SubSeq(s, 1, i - 1)>> \o Split(SubSeq(s, i + 1, Len(s)), c)
    ELSE <<s>>

RECURSIVE StripNonEmpty(_)
\* [t.strip() for t in pieces if t.strip()]
StripNonEmpty(pieces) ==
    IF pieces = <<>> THEN <<>>
    ELSE IF Strip(Head(pieces)) # <<>>
         THEN <<Strip(Head(pieces))>> \o StripNonEmpty(Tail(pieces))
         ELSE StripNonEmpty(Tail(pieces))

(***************************************************************************)
(* Python values of a raw record's fields.                                 *)
(***************************************************************************)
StrV(s) == [t |-> "str", s |-> s]
NoneV == [t |-> "none", s |-> <<>>]
NanV == [t |-> "nan", s |-> <<>>]
SeriesV == [t |-> "series", s |-> <<>>]
AbsentV == [t |-> "absent", s |-> <<>>]

\* str(v)
PyStr(v) ==
    CASE v.t = "str" -> v.s
      [] v.t = "none" -> <<"N","o","n","e">>
      [] v.t = "nan" -> <<"n","a","n">>
      [] OTHER -> <<"S","e","r","i","e","s">>

\* bool(v) raises ValueError for a Series ("truth value ... is ambiguous")
TruthRaises(v) == v.t = "series"

\* bool(v): '' and None are false, a non-empty str and float nan are true
Truthy(v) ==
    CASE v.t = "str" -> v.s # <<>>
      [] v.t = "none" -> FALSE
      [] OTHER -> TRUE

\* a or b
PyOr(a, b) == IF Truthy(a) THEN a ELSE b

\* mapping.get(key, default)
Get(m, key, default) == IF m[key].t = "absent" THEN default ELSE m[key]

(***************************************************************************)
(* extract_method_signature: re.search of method_pattern, which reads,      *)
(* piece by piece: the letters d e f; one or more whitespace characters;   *)
(* a name (a letter or '_', then letters, digits, '_'), which is group 1;  *)
(* any whitespace; '('; any characters but ')'; ')'; optionally (any       *)
(* whitespace, '->', any whitespace, one or more characters but ':');      *)
(* and ':'.                                                                *)
(* The scan tries the start positions from the left; at one start every    *)
(* quantifier is greedy.                                                   *)
(***************************************************************************)
IsIdentStart(c) == c \in Range(UpperCase) \cup Range(LowerCase) \cup {"_"}

IsIdentChar(c) == IsIdentStart(c) \/ c \in Digits

RECURSIVE SkipSpace(_, _)
SkipSpace(s, i) == IF i <= Len(s) /\ IsSpace(s[i]) THEN SkipSpace(s, i + 1) ELSE i

RECURSIVE SkipIdent(_, _)
SkipIdent(s, i) == IF i <= Len(s) /\ IsIdentChar(s[i]) THEN SkipIdent(s, i + 1) ELSE i

RECURSIVE SkipNot(_, _, _)
SkipNot(s, i, c) == IF i <= Len(s) /\ s[i] # c THEN SkipNot(s, i + 1, c) ELSE i

At(s, i, c) == i >= 1 /\ i <= Len(s) /\ s[i] = c

\* The match of the pattern that starts at position i: [ok, name_from,
\* name_to, end], end being the position of the closing ':'.
NoMatch == [ok |-> FALSE, name_from |-> 0, name_to |-> 0, end |-> 0]

MatchAt(s, i) ==
    LET a == i + 3
        b == SkipSpace(s, a)
        c == SkipIdent(s, b)
        d == SkipSpace(s, c)
        e == SkipNot(s, d + 1, ")")
        g == SkipSpace(s, e + 1)
        h == SkipNot(s, g + 2, ":")
    IN  IF /\ At(s, i, "d") /\ At(s, i + 1, "e") /\ At(s, i + 2, "f")
           /\ b > a
           /\ b <= Len(s) /\ IsIdentStart(s[b])
           /\ At(s, d, "(")
           /\ At(s, e, ")")
        THEN IF /\ At(s, g, "-") /\ At(s, g + 1, ">")
                /\ h > g + 2
                /\ At(s, h, ":")
             THEN [ok |-> TRUE, name_from |-> b, name_to |-> c - 1, end |-> h]
             ELSE IF At(s, e + 1, ":")
                  THEN [ok |-> TRUE, name_from |-> b, name_to |-> c - 1, end |-> e + 1]
                  ELSE NoMatch
        ELSE NoMatch

RECURSIVE SearchFrom_Last(_, _)
\* (variant: the match at the rightmost start position that has one)
SearchFrom_Last(s, i) ==
    IF i > Len(s) THEN [m |-> NoMatch, start |-> 0]
    ELSE IF SearchFrom_Last(s, i + 1).m.ok THEN SearchFrom_Last(s, i + 1)
         ELSE [m |-> MatchAt(s, i), start |-> i]

RECURSIVE SearchFrom(_, _)
\* re.search: the match at the leftmost start position that has one
SearchFrom(s, i) ==
    IF i > Len(s) THEN [m |-> NoMatch, start |-> 0]
    ELSE IF MatchAt(s, i).ok THEN [m |-> MatchAt(s, i), start |-> i]
         ELSE SearchFrom(s, i + 1)

NotFound == [found |-> FALSE, method_name |-> <<>>, full_signature |-> <<>>]

extract_method_signature(code) ==
    IF code = <<>> THEN NotFound
    ELSE LET r == SearchFrom(code, 1)
         IN  IF r.m.ok
             THEN [found |-> TRUE,
                   method_name |-> SubSeq(code, r.m.name_from, r.m.name_to),
                   full_signature |-> RStripChar(SubSeq(code, r.start, r.m.end), ":")]
             ELSE NotFound

(***************************************************************************)
(* Texts used by the inputs.                                               *)
(***************************************************************************)
Empty == <<>>
Medium == <<"M","e","d","i","u","m">>
sAb == <<"A","b">>
sPadAB == <<" ","a","B"," ">>
sBlank == <<" ","\t">>
sHard == <<"H","a","r","d">>
sEasy == <<"E","a","s","y">>
sTags == <<"A",","," ","b"," ",","," ">>
sPlain == <<"x","=","1">>
sDefF == <<"d","e","f"," ","f","(",")",":">>
sDefGF == <<"d","e","f"," ","g","(","a",")"," ","-",">"," ","b",":","\n">> \o sDefF

(***************************************************************************)
(* A knowledge-base entry is a function from field names to values (a str, *)
(* or for "tags" a sequence of str).  A JSON value of the existing KB file *)
(* is an object holding an entry, or null.                                 *)
(***************************************************************************)
JsonObject(entry) == [json |-> "object", fields |-> entry]
JsonNull == [json |-> "null", fields |-> <<>>]

\* (variant: an entry already stored under the key is kept)
Put_KeepFirst(map, key, entry) == map @@ (key :> entry)

\* kb[key] = entry
Put(map, key, entry) == (key :> entry) @@ map

\* (variant: the key is the title as written)
TitleKey_AsWritten(title) == title

\* title.lower(), the key an entry is stored under
TitleKey(title) == Lower(title)

\* (variant: no try/except around the loop body, the exception leaves the loop)
loop_pc_Propagate(how, here) == IF how = "raised" THEN "except" ELSE here

\* except Exception: continue -- where the loop at `here` goes on after a record
loop_pc(how, here) == here

(***************************************************************************)
(* process_data, the body of `for _, row in df.iterrows()`.                *)
(* Result: how the row ended, the kb after it, the key it stored under.    *)
(***************************************************************************)
process_data_row(row, map) ==
    LET t1 == Get(row, "title", StrV(Empty))
        title == Strip(PyStr(PyOr(t1, Get(row, "question title", StrV(Empty)))))
        i1 == Get(row, "id", StrV(Empty))
        problem_id == Strip(PyStr(PyOr(i1, Get(row, "frontend question id", StrV(Empty)))))
        g1 == Get(row, "tags", StrV(Empty))
        d1 == Get(row, "description", StrV(Empty))
        s1 == Get(row, "solution", StrV(Empty))
        entry == [id |-> problem_id,
                  title |-> title,
                  difficulty |-> PyStr(Get(row, "difficulty", StrV(Medium))),
                  tags |-> StripNonEmpty(Split(
                              PyStr(PyOr(g1, Get(row, "topic tags", StrV(Empty)))), ",")),
                  description |-> PyStr(PyOr(d1, Get(row, "question text", StrV(Empty)))),
                  solution |-> PyStr(PyOr(s1, Get(row, "python solution", StrV(Empty))))]
    IN  IF TruthRaises(t1) THEN [outcome |-> "raised", kb |-> map, key |-> Empty]
        ELSE IF title = Empty THEN [outcome |-> "skipped", kb |-> map, key |-> Empty]
        ELSE IF TruthRaises(i1) \/ TruthRaises(g1) \/ TruthRaises(d1) \/ TruthRaises(s1)
             THEN [outcome |-> "raised", kb |-> map, key |-> Empty]
             ELSE [outcome |-> "stored", kb |-> Put(map, TitleKey(title), entry),
                   key |-> TitleKey(title)]

(***************************************************************************)
(* process_hf_dataset, the body of `for idx, item in enumerate(train_data)`*)
(* Result: how the item ended, solutions_kb and existing_kb after it, the *)
(* key it stored under.                                                    *)
(***************************************************************************)
\* (variant: the entry is always built from the record)
get_or_create_New(it, ekb, title, title_key) ==
    [id |-> PyStr(Get(it, "number", StrV(Empty))),
     title |-> title,
     difficulty |-> PyStr(Get(it, "difficulty", StrV(Medium))),
     tags |-> <<>>,
     description |-> PyStr(Get(it, "post_title", StrV(Empty)))]

\* `Get or create entry`: a copy of the existing entry, or a new entry
get_or_create(it, ekb, title, title_key) ==
    IF title_key \in DOMAIN ekb
    THEN ekb[title_key].fields
    ELSE [id |-> PyStr(Get(it, "number", StrV(Empty))),
          title |-> title,
          difficulty |-> PyStr(Get(it, "difficulty", StrV(Medium))),
          tags |-> <<>>,
          description |-> PyStr(Get(it, "post_title", StrV(Empty)))]

\* (variant: entry = existing_kb[title_key], without .copy())
existing_after_Alias(ekb, title_key, entry) ==
    IF title_key \in DOMAIN ekb THEN Put(ekb, title_key, JsonObject(entry)) ELSE ekb

\* existing_kb after the item: entry is a copy (dict.copy()) or a new dict, so
\* the assignments to entry[...] reach no entry of existing_kb
existing_after(ekb, title_key, entry) == ekb

process_hf_item(it, ekb, skb) ==
    LET title == Strip(PyStr(Get(it, "problem_title", StrV(Empty))))
        title_key == TitleKey(title)
        present == title_key \in DOMAIN ekb
        base == get_or_create(it, ekb, title, title_key)
        code == PyStr(Get(it, "python_solutions", StrV(Empty)))
        sig_info == extract_method_signature(code)
        with_code == IF code # Empty THEN ("solution_code" :> code) @@ base ELSE base
        entry == IF code # Empty /\ sig_info.found
                 THEN ("method_name" :> sig_info.method_name)
                      @@ ("method_signature" :> sig_info.full_signature)
                      @@ with_code
                 ELSE with_code
    IN  IF title = Empty
        THEN [outcome |-> "skipped", solutions_kb |-> skb, existing_kb |-> ekb,
              key |-> Empty]
        ELSE IF present /\ ekb[title_key].json # "object"
             THEN [outcome |-> "raised", solutions_kb |-> skb, existing_kb |-> ekb,
                   key |-> Empty]
             ELSE [outcome |-> "stored",
                   solutions_kb |-> Put(skb, title_key, entry),
                   existing_kb |-> existing_after(ekb, title_key, entry),
                   key |-> title_key]

(***************************************************************************)
(* The inputs: rows of the CSV, items of the dataset, the existing KB file.*)
(***************************************************************************)
Row(t, q, d, g) ==
    ("title" :> t) @@ ("question title" :> q)
    @@ ("id" :> StrV(<<"1">>)) @@ ("frontend question id" :> AbsentV)
    @@ ("difficulty" :> d)
    @@ ("tags" :> g) @@ ("topic tags" :> AbsentV)
    @@ ("description" :> StrV(<<"d">>)) @@ ("question text" :> AbsentV)
    @@ ("solution" :> AbsentV) @@ ("python solution" :> StrV(sDefF))

Rows ==
    {Row(t, q, StrV(sEasy), StrV(sTags)) :
        t \in {AbsentV, StrV(Empty), StrV(sBlank), NanV, StrV(sAb)},
        q \in {AbsentV, StrV(sPadAB), StrV(sBlank)}}
    \cup {Row(StrV(sAb), AbsentV, d, g) :
        d \in {AbsentV, StrV(Empty), NanV}, g \in {AbsentV, StrV(Empty)}}

Item(t, d, c) ==
    [problem_title |-> t, number |-> StrV(<<"7">>), difficulty |-> d,
     post_title |-> StrV(<<"p">>), python_solutions |-> c]

Items ==
    {Item(t, StrV(sHard), StrV(sDefF)) :
        t \in {AbsentV, NoneV, StrV(Empty), StrV(sBlank), StrV(sAb), StrV(sPadAB)}}
    \cup {Item(StrV(sAb), d, c) :
        d \in {AbsentV, StrV(Empty), StrV(sHard)},
        c \in {AbsentV, StrV(sPlain), StrV(sDefF), StrV(sDefGF)}}
    \cup {[problem_title |-> StrV(sPadAB), number |-> AbsentV, difficulty |-> NoneV,
           post_title |-> AbsentV, python_solutions |-> StrV(Empty)]}

NoFile == [exists |-> FALSE, valid |-> FALSE, data |-> <<>>]
JsonFile(map) == [exists |-> TRUE, valid |-> TRUE, data |-> map]
BrokenFile == [exists |-> TRUE, valid |-> FALSE, data |-> <<>>]

\* json.load of what an earlier run wrote: every entry is a JSON object
AsJson(map) == [k \in DOMAIN map |-> JsonObject(map[k])]

\* The file process_data leaves for these rows.
KaggleOutput(rows) ==
    LET RECURSIVE Run(_, _)
        Run(rs, map) == IF rs = <<>> THEN map
                        ELSE Run(Tail(rs), process_data_row(Head(rs), map).kb)
    IN  Run(rows, <<>>)

\* The file process_hf_dataset leaves for one item and no existing KB.
HfOutput(it) == process_hf_item(it, <<>>, <<>>).solutions_kb

ExistingFiles ==
    {NoFile, BrokenFile,
     JsonFile(AsJson(KaggleOutput(<<Row(StrV(sAb), AbsentV, StrV(sEasy), StrV(sTags))>>))),
     JsonFile(AsJson(KaggleOutput(<<Row(StrV(sAb), AbsentV, AbsentV, AbsentV),
                                    Row(StrV(<<"Z","z">>), AbsentV, NanV, StrV(sTags))>>))),
     JsonFile(AsJson(HfOutput(Item(StrV(sAb), StrV(sEasy), StrV(sDefF))))),
     JsonFile(<<"a","b">> :> JsonNull)}

(***************************************************************************)
(* The run.                                                                *)
(***************************************************************************)
Kaggle == "ingest_leetcode_data"
Hf == "ingest_hf_leetcode"

NoOutput == [state |-> "absent", data |-> <<>>]

Init ==
    /\ script \in {Kaggle, Hf}
    /\ pc = "Idle"
    /\ exc = "none"
    /\ exit_code = -1
    /\ dup_columns = {}
    /\ existing_file \in IF script = Hf THEN ExistingFiles ELSE {NoFile}
    /\ existing_kb = <<>>
    /\ dataset = {}
    /\ kb = <<>>
    /\ solutions_kb = <<>>
    /\ idx = 0
    /\ item = <<>>
    /\ outcome = "none"
    /\ stored_from = <<>>
    /\ replaced = <<>>
    /\ raised_seen = FALSE
    /\ count = 0
    /\ output_file = NoOutput
    /\ writes = 0

\* A run-level exception: control passes to the handler of `__main__`
\* (ingest_leetcode_data) or of process_hf_dataset.
Raise(name) ==
    /\ exc' = name
    /\ pc' = "except"

\* python <script>: the first statement of the run
Start ==
    /\ pc = "Idle"
    /\ pc' = IF script = Kaggle THEN "download_dataset" ELSE "load_dataset"
    /\ UNCHANGED <<dataset, script, exc, exit_code, dup_columns, existing_file, existing_kb,
                   kb, solutions_kb, idx, item, outcome, stored_from, replaced, raised_seen,
                   count, output_file, writes>>

\* download_dataset(): authenticate, download and unzip; either call may raise
download_dataset ==
    /\ pc = "download_dataset"
    /\ \/ pc' = "find_csv" /\ exc' = exc
       \/ Raise("authenticate")
       \/ Raise("dataset_download_files")
    /\ UNCHANGED <<dataset, script, exit_code, dup_columns, existing_file, existing_kb,
                   kb, solutions_kb, idx, item, outcome, stored_from, replaced, raised_seen,
                   count, output_file, writes>>

\* process_data(): os.walk for a .csv, pd.read_csv, the lowercased columns
read_csv ==
    /\ pc = "find_csv"
    /\ \/ /\ pc' = "rows" /\ exc' = exc
          /\ dup_columns' \in {{}, {"title"}, {"tags"}}
          /\ dataset' = Rows
       \/ Raise("FileNotFoundError") /\ UNCHANGED <<dup_columns, dataset>>
       \/ Raise("read_csv") /\ UNCHANGED <<dup_columns, dataset>>
    /\ UNCHANGED <<script, exit_code, existing_file, existing_kb,
                   kb, solutions_kb, idx, item, outcome, stored_from, replaced, raised_seen,
                   count, output_file, writes>>

\* What row.get returns for a label the frame holds twice is a Series.
RowOf(r, dups) == [f \in DOMAIN r |-> IF f \in dups THEN SeriesV ELSE r[f]]

\* one iteration of `for _, row in df.iterrows()`
process_data_step ==
    /\ pc = "rows"
    /\ idx < MaxRecords
    /\ \E r \in dataset :
         LET row == RowOf(r, dup_columns)
             res == process_data_row(row, kb)
         IN  /\ item' = row
             /\ kb' = res.kb
             /\ outcome' = res.outcome
             /\ raised_seen' = (raised_seen \/ res.outcome = "raised")
             /\ stored_from' = IF res.outcome = "stored"
                               THEN (res.key :> row) @@ stored_from
                               ELSE stored_from
             /\ replaced' = IF res.outcome = "stored" /\ res.key \in DOMAIN kb
                            THEN kb[res.key] ELSE <<>>
             /\ count' = IF res.outcome = "stored" THEN count + 1 ELSE count
             /\ pc' = loop_pc(res.outcome, pc)
    /\ idx' = idx + 1
    /\ UNCHANGED <<dataset, script, exc, exit_code, dup_columns, existing_file,
                   existing_kb, solutions_kb, output_file, writes>>

\* process_hf_dataset(): load_dataset("cassanof/leetcode-solutions"), ds['train'];
\* the split loaded is one of `splits`
load_dataset(splits) ==
    /\ pc = "load_dataset"
    /\ \/ /\ pc' = "load_existing" /\ exc' = exc
          /\ dataset' \in splits
       \/ Raise("load_dataset") /\ UNCHANGED dataset
    /\ UNCHANGED <<script, exit_code, dup_columns, existing_file, existing_kb,
                   kb, solutions_kb, idx, item, outcome, stored_from, replaced, raised_seen,
                   count, output_file, writes>>

\* existing_kb = {}; if os.path.exists(EXISTING_KB_FILE): existing_kb = json.load(f)
load_existing_kb ==
    /\ pc = "load_existing"
    /\ \/ /\ ~existing_file.exists
          /\ existing_kb' = <<>>
          /\ pc' = "items" /\ exc' = exc
       \/ /\ existing_file.exists /\ existing_file.valid
          /\ existing_kb' = existing_file.data
          /\ pc' = "items" /\ exc' = exc
       \/ /\ existing_file.exists /\ ~existing_file.valid
          /\ Raise("JSONDecodeError")
          /\ UNCHANGED existing_kb
    /\ UNCHANGED <<dataset, script, exit_code, dup_columns, existing_file,
                   kb, solutions_kb, idx, item, outcome, stored_from, replaced, raised_seen,
                   count, output_file, writes>>

\* one iteration of `for idx, item in enumerate(train_data)`
process_hf_step ==
    /\ pc = "items"
    /\ idx < MaxRecords
    /\ \E it \in dataset :
         LET res == process_hf_item(it, existing_kb, solutions_kb)
         IN  /\ item' = it
             /\ solutions_kb' = res.solutions_kb
             /\ existing_kb' = res.existing_kb
             /\ outcome' = res.outcome
             /\ raised_seen' = (raised_seen \/ res.outcome = "raised")
             /\ stored_from' = IF res.outcome = "stored"
                               THEN (res.key :> it) @@ stored_from
                               ELSE stored_from
             /\ replaced' = IF res.outcome = "stored" /\ res.key \in DOMAIN solutions_kb
                            THEN solutions_kb[res.key] ELSE <<>>
             /\ count' = IF res.outcome = "stored" THEN count + 1 ELSE count
             /\ pc' = loop_pc(res.outcome, pc)
    /\ idx' = idx + 1
    /\ UNCHANGED <<dataset, script, exc, exit_code, dup_columns, existing_file,
                   kb, output_file, writes>>

\* the for loop ends: the frame / the split has no more records
end_loop ==
    /\ pc \in {"rows", "items"}
    /\ pc' = "save"
    /\ UNCHANGED <<dataset, script, exc, exit_code, dup_columns, existing_file, existing_kb,
                   kb, solutions_kb, idx, item, outcome, stored_from, replaced, raised_seen,
                   count, output_file, writes>>

\* the mapping the running script builds
KB == IF script = Kaggle THEN kb ELSE solutions_kb

\* with open(OUTPUT_FILE, 'w') as f: json.dump(<kb>, f, indent=2); and, in
\* process_hf_dataset, return True and exit(0)
save ==
    /\ pc = "save"
    /\ \/ /\ output_file' = [state |-> "complete", data |-> KB]
          /\ writes' = writes + 1
          /\ exc' = exc
          /\ pc' = IF script = Kaggle THEN "cleanup" ELSE "Done"
          /\ exit_code' = IF script = Kaggle THEN exit_code ELSE 0
       \/ /\ Raise("open")
          /\ UNCHANGED <<output_file, writes, exit_code>>
       \/ /\ output_file' = [state |-> "partial", data |-> <<>>]
          /\ writes' = writes + 1
          /\ Raise("json.dump")
          /\ UNCHANGED exit_code
    /\ UNCHANGED <<dataset, script, dup_columns, existing_file, existing_kb,
                   kb, solutions_kb, idx, item, outcome, stored_from, replaced, raised_seen,
                   count>>

\* cleanup(): shutil.rmtree(DOWNLOAD_PATH); then the script ends, status 0
cleanup ==
    /\ pc = "cleanup"
    /\ \/ pc' = "Done" /\ exit_code' = 0 /\ exc' = exc
       \/ Raise("rmtree") /\ UNCHANGED exit_code
    /\ UNCHANGED <<dataset, script, dup_columns, existing_file, existing_kb,
                   kb, solutions_kb, idx, item, outcome, stored_from, replaced, raised_seen,
                   count, output_file, writes>>

\* (variant: the handler reports the error and the script ends normally)
handler_Swallow ==
    /\ pc = "except"
    /\ pc' = "Done"
    /\ exit_code' = 0
    /\ UNCHANGED <<dataset, script, exc, dup_columns, existing_file, existing_kb,
                   kb, solutions_kb, idx, item, outcome, stored_from, replaced,
                   raised_seen, count, output_file, writes>>

\* except Exception as e: print the error; exit(1)
\* (process_hf_dataset's handler returns False, and `__main__` exits 1)
handler ==
    /\ pc = "except"
    /\ pc' = "Failed"
    /\ exit_code' = 1
    /\ UNCHANGED <<dataset, script, exc, dup_columns, existing_file, existing_kb,
                   kb, solutions_kb, idx, item, outcome, stored_from, replaced, raised_seen,
                   count, output_file, writes>>

Next ==
    \/ Start
    \/ download_dataset
    \/ read_csv
    \/ process_data_step
    \/ load_dataset({Items})
    \/ load_existing_kb
    \/ process_hf_step
    \/ end_loop
    \/ save
    \/ cleanup
    \/ handler

Spec == Init /\ [][Next]_vars

\* The steps of a run outside the loop body; the loop itself ends (end_loop)
\* because the frame / the split is finite.
Progress ==
    \/ Start
    \/ download_dataset
    \/ read_csv
    \/ load_dataset({Items})
    \/ load_existing_kb
    \/ end_loop
    \/ save
    \/ cleanup
    \/ handler

\* The interpreter runs the script to its end: a step that can be taken is
\* taken, and the loop over a finite input ends.
FairSpec == Spec /\ WF_vars(Progress)

(***************************************************************************)
(* A second specification, for extract_method_signature: process_hf_dataset*)
(* over a split whose records all hold the same python_solutions, any text *)
(* of at most MaxPieces pieces.                                            *)
(***************************************************************************)
SigPieces ==
    {sDefF,
     <<"d","e","f"," ","g","(","a",")"," ","-",">"," ","b",":","\n">>,
     sPlain,
     <<"d","e","f"," ","h","(">>,
     <<")",":">>,
     <<" ","-",">"," ",":">>,
     <<"d","e","f"," ","k","(",")">>,
     <<"1","d","e","f","\t","_","m","2"," ","(",":",")","\n","-",">","z",":">>}

RECURSIVE TextsOf(_)
TextsOf(n) ==
    IF n = 0 THEN {Empty}
    ELSE TextsOf(n - 1) \cup {t \o q : t \in TextsOf(n - 1), q \in SigPieces}

SigTexts == TextsOf(MaxPieces)

SigItems == {Item(StrV(sAb), StrV(sHard), StrV(t)) : t \in SigTexts}

InitSig ==
    /\ Init
    /\ script = Hf
    /\ existing_file \in
         {NoFile, JsonFile(AsJson(HfOutput(Item(StrV(sAb), StrV(sEasy), StrV(sDefF)))))}

NextSig ==
    \/ Start
    \/ load_dataset({{it} : it \in SigItems})
    \/ load_existing_kb
    \/ process_hf_step
    \/ end_loop
    \/ save
    \/ handler

SpecSig == InitSig /\ [][NextSig]_vars

(***************************************************************************)
(* Properties.                                                             *)
(***************************************************************************)
\* the title a record resolves to, and its key
TitleOf(r) ==
    IF script = Kaggle
    THEN Strip(PyStr(PyOr(Get(r, "title", StrV(Empty)),
                          Get(r, "question title", StrV(Empty)))))
    ELSE Strip(PyStr(Get(r, "problem_title", StrV(Empty))))

CodeOf(it) == PyStr(Get(it, "python_solutions", StrV(Empty)))

SignatureFields == {"method_name", "method_signature"}

\* C1: every entry stored under a key k has lower(title) = k, in both
\* pipelines, the entries copied from the existing KB included.
C1_KeyIsLowerTitle ==
    \A k \in DOMAIN KB : "title" \in DOMAIN KB[k] /\ Lower(KB[k].title) = k

C1_Witness ==
    /\ script = Hf
    /\ \E k \in DOMAIN solutions_kb :
         /\ k \in DOMAIN existing_kb
         /\ solutions_kb[k].title = existing_kb[k].fields.title
         /\ solutions_kb[k].title # k
    /\ \E k \in DOMAIN solutions_kb : k \notin DOMAIN existing_kb

\* C2: merge additivity in process_hf_dataset: for a key of the existing KB,
\* the stored entry keeps every field of the existing entry, and the only
\* fields that are new or differ are solution_code and, when a declaration
\* is found, method_name and method_signature.
C2_MergeAdditive ==
    script = Hf =>
      \A k \in DOMAIN solutions_kb :
        k \in DOMAIN existing_kb =>
          LET old == existing_kb[k].fields
              new == solutions_kb[k]
              code == CodeOf(stored_from[k])
              fresh == IF code = Empty THEN {}
                       ELSE IF extract_method_signature(code).found
                            THEN {"solution_code"} \cup SignatureFields
                            ELSE {"solution_code"}
          IN  /\ DOMAIN old \subseteq DOMAIN new
              /\ \A f \in DOMAIN new :
                   (f \notin DOMAIN old \/ new[f] # old[f]) => f \in fresh

C2_Witness ==
    /\ script = Hf
    /\ \E k \in DOMAIN solutions_kb :
         /\ k \in DOMAIN existing_kb
         /\ "tags" \in DOMAIN existing_kb[k].fields
         /\ existing_kb[k].fields.tags # <<>>
         /\ solutions_kb[k].tags = existing_kb[k].fields.tags
         /\ "method_name" \notin DOMAIN existing_kb[k].fields
         /\ "method_name" \in DOMAIN solutions_kb[k]

\* A title field with nothing in it: absent, a missing value, empty or blank.
NoText(v) == v.t \in {"absent", "none", "nan"} \/ (v.t = "str" /\ Strip(v.s) = Empty)

NoTitle(r) ==
    IF script = Kaggle
    THEN NoText(r["title"]) /\ NoText(r["question title"])
    ELSE NoText(r["problem_title"])

\* C3: a record with no resolvable title (every candidate title field
\* absent, empty, a missing value or blank) adds no key and changes no entry;
\* a row whose 'title' is empty and whose 'question title' has text is added
\* under the latter.
C3_UntitledSkipped ==
    [][idx' = idx + 1 =>
         /\ NoTitle(item') => KB' = KB
         /\ (/\ script = Kaggle /\ dup_columns = {}
             /\ item'["title"] = StrV(Empty)
             /\ ~NoText(item'["question title"]))
            => LET alt == Strip(item'["question title"].s)
               IN  Lower(alt) \in DOMAIN KB' /\ (KB')[Lower(alt)].title = alt]_vars

\* C4: last write wins: the entry under a key is the one the last stored
\* record with that key produces (in process_hf_dataset from that record and
\* the existing KB), whatever earlier records stored there.
C4_LastWriteWins ==
    /\ DOMAIN KB = DOMAIN stored_from
    /\ \A k \in DOMAIN KB :
         /\ Lower(TitleOf(stored_from[k])) = k
         /\ KB[k] = IF script = Kaggle
                    THEN process_data_row(stored_from[k], <<>>).kb[k]
                    ELSE process_hf_item(stored_from[k], existing_kb, <<>>).solutions_kb[k]

C4_Witness ==
    /\ script = Hf
    /\ outcome = "stored"
    /\ "solution_code" \in DOMAIN replaced
    /\ "solution_code" \notin DOMAIN solutions_kb[Lower(TitleOf(item))]

\* C5: a record that raises leaves the KB as it was and the loop goes on;
\* a later valid record is still added; and unless a run-level step fails the
\* run ends Done with status 0 and the KB written.
C5_RecordIsolation ==
    /\ [][(idx' = idx + 1 /\ outcome' = "raised") =>
            (KB' = KB /\ pc' = pc /\ exc' = exc)]_vars
    /\ [][(idx' = idx + 1 /\ raised_seen /\ outcome' # "raised" /\ TitleOf(item') # Empty)
            => Lower(TitleOf(item')) \in DOMAIN KB']_vars
    /\ []((raised_seen /\ exc = "none" /\ exit_code # -1) =>
            (pc = "Done" /\ exit_code = 0 /\ output_file = [state |-> "complete", data |-> KB]))

C5_Witness ==
    /\ pc = "Done"
    /\ exit_code = 0
    /\ raised_seen
    /\ outcome = "stored"
    /\ output_file.data # <<>>

\* The stage of the run at a position of the script, as a rank.  The loop
\* ("rows", "items") is the one place where records are normalised and where
\* they are merged into the KB.
Rank(p) ==
    CASE p = "Idle" -> 0
      [] p \in {"download_dataset", "find_csv", "load_dataset", "load_existing"} -> 1
      [] p \in {"rows", "items"} -> 2
      [] p = "save" -> 3
      [] p = "cleanup" -> 4
      [] p = "except" -> 5
      [] OTHER -> 6

Ended == pc \in {"Done", "Failed"}

\* C6 (as amended): the run goes through Idle, Loading, the record loop (one
\* step per record, which normalises the record and merges it into the KB),
\* Writing, in that order and never back; it writes the output at most once,
\* after the last record; it ends in exactly one of Done (status 0, the file
\* holds the final KB) and Failed (status 1); and a run-level failure leads
\* to Failed.
C6_Lifecycle ==
    /\ [][Rank(pc') >= Rank(pc)]_vars
    /\ [][writes' # writes => (pc = "save" /\ writes = 0)]_vars
    /\ [][Ended => (pc' = pc /\ exit_code' = exit_code /\ output_file' = output_file)]_vars
    /\ [](exit_code # -1 => Ended)
    /\ [](pc = "Done" =>
            (exit_code = 0 /\ output_file = [state |-> "complete", data |-> KB]))
    /\ [](pc = "Failed" => exit_code = 1)
    /\ <>Ended
    /\ (exc # "none") ~> (pc = "Failed")

C6_Witness ==
    /\ pc = "Done"
    /\ idx = MaxRecords
    /\ count >= 2
    /\ writes = 1

\* C6 (as claimed): Merging is a stage after Normalizing: once a record has
\* been merged into the KB, no further record is normalised.
C6_MergingAfterNormalizing ==
    [][count >= 1 => idx' = idx]_vars

\* C7: a new entry's difficulty is the record's difficulty, and "Medium" when
\* that field is absent or empty; it is never the empty string.
C7_DifficultyDefault ==
    \A k \in DOMAIN KB :
      (script = Kaggle \/ k \notin DOMAIN existing_kb) =>
        LET d == stored_from[k]["difficulty"]
        IN  /\ (d.t = "absent" \/ (d.t = "str" /\ d.s = Empty))
                 => KB[k].difficulty = Medium
            /\ (d.t = "str" /\ d.s # Empty) => KB[k].difficulty = d.s
            /\ KB[k].difficulty # Empty

\* The text w[i..j] is a declaration: def, whitespace, a name, optional
\* whitespace, a parenthesised parameter list, optionally an arrow and a
\* return type, and ':'.  b..c is the name.
IsDeclaration(w, i, j, b, c) ==
    /\ i >= 1 /\ j <= Len(w) /\ i + 3 < b /\ b <= c /\ c < j
    /\ w[i] = "d" /\ w[i + 1] = "e" /\ w[i + 2] = "f"
    /\ \A x \in (i + 3)..(b - 1) : IsSpace(w[x])
    /\ IsIdentStart(w[b])
    /\ \A x \in (b + 1)..c : IsIdentChar(w[x])
    /\ w[j] = ":"
    /\ \E d \in (c + 1)..j :
         /\ \A x \in (c + 1)..(d - 1) : IsSpace(w[x])
         /\ w[d] = "("
         /\ \E e \in (d + 1)..j :
              /\ \A x \in (d + 1)..(e - 1) : w[x] # ")"
              /\ w[e] = ")"
              /\ \/ j = e + 1
                 \/ \E g \in (e + 1)..j :
                      /\ \A x \in (e + 1)..(g - 1) : IsSpace(w[x])
                      /\ g + 2 < j
                      /\ w[g] = "-" /\ w[g + 1] = ">"
                      /\ \A x \in (g + 2)..(j - 1) : w[x] # ":"

\* the declarations in w: <<start, end, name from, name to>>
Declarations(w) ==
    {q \in {i \in 1..Len(w) : w[i] = "d"} \X {j \in 1..Len(w) : w[j] = ":"}
            \X {b \in 1..Len(w) : IsIdentStart(w[b])} \X (1..Len(w)) :
        IsDeclaration(w, q[1], q[2], q[3], q[4])}

\* C8: extract_method_signature returns the name of the leftmost declaration
\* in the text and its text without the closing ':'; for a text with no
\* declaration it returns "not found", nothing raises, and the entry gets no
\* method_name or method_signature from the record.
C8_FirstDeclaration ==
    outcome # "none" =>
      LET code == CodeOf(item)
          new == solutions_kb[Lower(TitleOf(item))]
          decls == Declarations(code)
          r == extract_method_signature(code)
      IN  /\ outcome = "stored"
          /\ IF decls # {}
             THEN LET q == CHOOSE q \in decls : \A o \in decls : q[1] <= o[1]
                  IN  /\ r.found
                      /\ r.method_name = SubSeq(code, q[3], q[4])
                      /\ r.full_signature = SubSeq(code, q[1], q[2] - 1)
                      /\ new.method_name = SubSeq(code, q[3], q[4])
                      /\ new.method_signature = SubSeq(code, q[1], q[2] - 1)
             ELSE /\ r = NotFound
                  /\ \A f \in SignatureFields :
                       IF Lower(TitleOf(item)) \in DOMAIN existing_kb
                       THEN new[f] = existing_kb[Lower(TitleOf(item))].fields[f]
                       ELSE f \notin DOMAIN new

C8_Witness ==
    /\ outcome = "stored"
    /\ Cardinality({q[1] : q \in Declarations(CodeOf(item))}) >= 2
    /\ solutions_kb[Lower(TitleOf(item))].method_name = <<"f">>
    /\ Len(CodeOf(item)) > Len(solutions_kb[Lower(TitleOf(item))].method_signature) + 3

\* C9: an entry of process_hf_dataset's output that has method_name or
\* method_signature has solution_code too, and they are what
\* extract_method_signature returns for that solution_code.
C9_SignatureOfOwnCode ==
    script = Hf =>
      \A k \in DOMAIN solutions_kb :
        LET e == solutions_kb[k]
        IN  (SignatureFields \cap DOMAIN e # {}) =>
              /\ "solution_code" \in DOMAIN e
              /\ SignatureFields \subseteq DOMAIN e
              /\ extract_method_signature(e.solution_code).found
              /\ e.method_name = extract_method_signature(e.solution_code).method_name
              /\ e.method_signature =
                   extract_method_signature(e.solution_code).full_signature

\* C10: process_hf_dataset never changes the loaded existing_kb or the file
\* it came from, and the keys of the written output are the keys of the
\* records stored, so an existing entry no record matches is not written.
C10_ReadOnlyBase ==
    /\ [][existing_file' = existing_file]_vars
    /\ [][pc \notin {"Idle", "load_dataset", "load_existing"}
            => existing_kb' = existing_kb]_vars
    /\ []((script = Hf /\ pc = "Done") =>
            DOMAIN output_file.data =
              {Lower(TitleOf(stored_from[k])) : k \in DOMAIN stored_from})
    /\ [][(script = Hf /\ idx' = idx + 1) =>
            DOMAIN solutions_kb' = DOMAIN solutions_kb \cup
              (IF TitleOf(item') # Empty /\ outcome' # "raised"
               THEN {Lower(TitleOf(item'))} ELSE {})]_vars

C10_Witness ==
    /\ script = Hf
    /\ pc = "Done"
    /\ \E k \in DOMAIN existing_kb : k \in DOMAIN output_file.data
    /\ \E k \in DOMAIN existing_kb : k \notin DOMAIN output_file.data
    /\ \E k \in DOMAIN output_file.data :
         /\ k \in DOMAIN existing_kb
         /\ output_file.data[k] # existing_kb[k].fields

====
